---- MODULE Spec2Model ----
(***************************************************************************)
(* A model of chatbot.py: the Moralis market-data query functions, the     *)
(* tools that initialize_agent registers over them, and the two run loops  *)
(* of the session driver.                                                  *)
(*                                                                         *)
(* Python strings are TLA+ strings, so the reports and the error texts are *)
(* the texts the code builds.  A JSON value is a tagged record; a JSON     *)
(* object keeps its members in order, as a sequence of <<key, value>>.     *)
(***************************************************************************)
EXTENDS Integers, Sequences, FiniteSets, TLC

VARIABLES
    MORALIS_API_KEY,   \* module global read from the environment at import
    network_id,        \* Wallet.network_id, owned by the wallet SDK
    tools,             \* the tools registered by initialize_agent
    call,              \* the last call: function, arguments, how it was made
    requests_sent,     \* the HTTP GETs issued by the last call
    response,          \* what the upstream answered to the last call's GET
    deployments,       \* the contract deployments started by the last call
    result,            \* the outcome of the last call: a text or an exception
    event,             \* what the session driver last reacted to
    pc,                \* position of the session driver
    mode,              \* the mode returned by choose_mode
    user_input,        \* the line last read by input()
    reads,             \* how many lines input() has returned
    prompts,           \* the prompts handed to agent_executor.stream
    output,            \* the lines printed by the driver
    sleep_for,         \* the seconds time.sleep was called with, 0 once it has returned
    exit_status        \* the process exit status, once it has exited

toolVars   == <<MORALIS_API_KEY, network_id, tools, call, requests_sent, response,
                deployments, result>>
driverVars == <<event, pc, mode, user_input, reads, prompts, output, sleep_for, exit_status>>
vars       == <<MORALIS_API_KEY, network_id, tools, call, requests_sent, response,
                deployments, result,
                event, pc, mode, user_input, reads, prompts, output, sleep_for, exit_status>>

(***************************************************************************)
(* Bounds of the model.                                                    *)
(***************************************************************************)
\* the longest result list an upstream payload carries
MaxItems == 2
\* the most lines the user types in one run
MaxReads == 3
\* the most prompts the driver sends in one run
MaxTurns == 2
\* the most events the decision loop streams for one prompt
MaxChunks == 1

(***************************************************************************)
(* Python values.                                                          *)
(***************************************************************************)
\* Python's None, where a string is expected (os.environ.get of an unset name)
PyNone == "<None>"

JNull    == [t |-> "null", v |-> ""]
JStr(s)  == [t |-> "str",  v |-> s]
JNum(s)  == [t |-> "num",  v |-> s]
JBool(b) == [t |-> "bool", v |-> IF b THEN "true" ELSE "false"]
JList(q) == [t |-> "list", v |-> q]
JDict(q) == [t |-> "dict", v |-> q]

\* bool(x) of a decoded JSON value
Truthy(j) ==
    CASE j.t = "null" -> FALSE
      [] j.t = "str"  -> j.v # ""
      [] j.t = "num"  -> j.v \notin {"0", "0.0"}
      [] j.t = "bool" -> j.v = "true"
      [] OTHER        -> Len(j.v) > 0

\* `not MORALIS_API_KEY`
KeyMissing(key) == key \in {PyNone, ""}

RECURSIVE Dumps(_), DumpsItems(_), DumpsMembers(_)
\* the JSON text of a value, as the upstream serialises it
Dumps(j) ==
    CASE j.t = "null" -> "null"
      [] j.t = "str"  -> "\"" \o j.v \o "\""
      [] j.t = "num"  -> j.v
      [] j.t = "bool" -> j.v
      [] j.t = "list" -> "[" \o DumpsItems(j.v) \o "]"
      [] OTHER        -> "{" \o DumpsMembers(j.v) \o "}"
DumpsItems(q) ==
    IF q = <<>> THEN ""
    ELSE Dumps(Head(q)) \o (IF Len(q) > 1 THEN "," ELSE "") \o DumpsItems(Tail(q))
DumpsMembers(q) ==
    IF q = <<>> THEN ""
    ELSE "\"" \o Head(q)[1] \o "\":" \o Dumps(Head(q)[2])
         \o (IF Len(q) > 1 THEN "," ELSE "") \o DumpsMembers(Tail(q))

RECURSIVE PyRepr(_), PyReprItems(_), PyReprMembers(_)
\* repr(x) of a decoded JSON value
PyRepr(j) ==
    CASE j.t = "null" -> "None"
      [] j.t = "str"  -> "'" \o j.v \o "'"
      [] j.t = "num"  -> j.v
      [] j.t = "bool" -> (IF j.v = "true" THEN "True" ELSE "False")
      [] j.t = "list" -> "[" \o PyReprItems(j.v) \o "]"
      [] OTHER        -> "{" \o PyReprMembers(j.v) \o "}"
PyReprItems(q) ==
    IF q = <<>> THEN ""
    ELSE PyRepr(Head(q)) \o (IF Len(q) > 1 THEN ", " ELSE "") \o PyReprItems(Tail(q))
PyReprMembers(q) ==
    IF q = <<>> THEN ""
    ELSE "'" \o Head(q)[1] \o "': " \o PyRepr(Head(q)[2])
         \o (IF Len(q) > 1 THEN ", " ELSE "") \o PyReprMembers(Tail(q))

\* str(x), what an f-string puts for {x}
PyStr(j) == IF j.t = "str" THEN j.v ELSE PyRepr(j)

RECURSIVE Lookup(_, _)
\* the member of an object's member list with key k, or <<>> when there is none
Lookup(q, k) ==
    IF q = <<>> THEN <<>>
    ELSE IF Head(q)[1] = k THEN <<Head(q)[2]>> ELSE Lookup(Tail(q), k)

\* the value of an expression: a value, or the exception it raised
Val(v)  == [ok |-> TRUE,  v |-> v,     exc |-> ""]
Exc(e)  == [ok |-> FALSE, v |-> JNull, exc |-> e]

\* x.get(k, dflt)
DictGet(j, k, dflt) ==
    IF j.t # "dict" THEN Exc("AttributeError")
    ELSE IF Lookup(j.v, k) = <<>> THEN Val(dflt) ELSE Val(Lookup(j.v, k)[1])

\* x[k] with a string key
Sub(j, k) ==
    IF j.t # "dict" THEN Exc("TypeError")
    ELSE IF Lookup(j.v, k) = <<>> THEN Exc("KeyError") ELSE Val(Lookup(j.v, k)[1])

\* x[i] with an integer index (from 0)
SubIdx(j, i) ==
    CASE j.t = "list" -> IF i < Len(j.v) THEN Val(j.v[i + 1]) ELSE Exc("IndexError")
      [] j.t = "dict" -> Exc("KeyError")
      [] j.t = "str"  -> IF i < Len(j.v) THEN Val(JStr(SubSeq(j.v, i + 1, i + 1)))
                         ELSE Exc("IndexError")
      [] OTHER        -> Exc("TypeError")

\* e.get(k), e[k] and e[i] where e may already have raised
GetOf(e, k)    == IF e.ok THEN DictGet(e.v, k, JNull) ELSE e
SubOf(e, k)    == IF e.ok THEN Sub(e.v, k) ELSE e
SubIdxOf(e, i) == IF e.ok THEN SubIdx(e.v, i) ELSE e

\* 'Yes' if e else 'No'
YesNo(e) == IF e.ok THEN Val(JStr(IF Truthy(e.v) THEN "Yes" ELSE "No")) ELSE e

\* e or 'N/A'
OrNA(e) == IF e.ok THEN Val(IF Truthy(e.v) THEN e.v ELSE JStr("N/A")) ELSE e

\* the items `for x in j` visits
Iterate(j) ==
    CASE j.t = "list" -> Val(j.v)
      [] j.t = "dict" -> Val([i \in 1..Len(j.v) |-> JStr(j.v[i][1])])
      [] j.t = "str"  -> Val([i \in 1..Len(j.v) |-> JStr(SubSeq(j.v, i, i))])
      [] OTHER        -> Exc("TypeError")

(***************************************************************************)
(* Outcomes of a call and f-strings.                                       *)
(***************************************************************************)
NoResult  == [kind |-> "none",   text |-> "", exc |-> ""]
Return(s) == [kind |-> "return", text |-> s,  exc |-> ""]
Raise(e)  == [kind |-> "raise",  text |-> "", exc |-> e]

\* a literal piece of an f-string
Lit(s)  == [ok |-> TRUE, s |-> s, exc |-> ""]
\* a replacement field {e} of an f-string
Fld(e)  == IF e.ok THEN [ok |-> TRUE, s |-> PyStr(e.v), exc |-> ""]
           ELSE [ok |-> FALSE, s |-> "", exc |-> e.exc]

RECURSIVE FString(_)
\* an f-string, evaluated left to right: the first piece that raises ends it
FString(parts) ==
    IF parts = <<>> THEN Return("")
    ELSE IF ~Head(parts).ok THEN Raise(Head(parts).exc)
    ELSE LET rest == FString(Tail(parts))
         IN  IF rest.kind = "raise" THEN rest ELSE Return(Head(parts).s \o rest.text)

RECURSIVE JoinOutcomes(_, _)
\* sep.join(blocks) over blocks already evaluated in order: the first block
\* that raised ends the call
JoinOutcomes(sep, blocks) ==
    IF blocks = <<>> THEN Return("")
    ELSE LET first == Head(blocks)
             rest  == JoinOutcomes(sep, Tail(blocks))
         IN  IF first.kind = "raise" THEN first
             ELSE IF rest.kind = "raise" THEN rest
             ELSE Return(first.text \o (IF Len(blocks) > 1 THEN sep ELSE "") \o rest.text)

(***************************************************************************)
(* The environment: networks, addresses, and what the upstream answers.    *)
(***************************************************************************)
\* values os.environ.get("MORALIS_API_KEY") can give
ApiKeys == {PyNone, "", "secret"}

\* network ids the wallet can be on; a fresh wallet is on base-sepolia
NetworkIds == {"base", "base-mainnet", "base-sepolia"}

\* addresses passed to the query functions
Addresses == {"0xABC", "0xDEF"}

\* all sequences over S of length at most n
SeqsUpTo(S, n) == UNION {[1..k -> S] : k \in 0..n}

\* a response: how the GET ended, the text of the exception it raised, the
\* body as text (response.text) and the body decoded (response.json())
NoResponse          == [kind |-> "none",       cause |-> "", text |-> "", json |-> JNull]
TransportFailure(c) == [kind |-> "transport",  cause |-> c,  text |-> "", json |-> JNull]
HttpError(c)        == [kind |-> "http_error", cause |-> c,  text |-> "", json |-> JNull]
Ok(body)            == [kind |-> "ok",         cause |-> "", text |-> Dumps(body), json |-> body]

\* str(e) of the RequestException raised by requests.get or raise_for_status
Failures ==
    {TransportFailure("Connection refused"), HttpError("401 Client Error: Unauthorized"),
     HttpError("500 Server Error: Internal Server Error")}

\* elements of the erc20/metadata answer
MetaFull ==
    JDict(<< <<"name", JStr("USD Coin")>>, <<"symbol", JStr("USDC")>>,
             <<"decimals", JStr("6")>>, <<"total_supply_formatted", JStr("1000")>>,
             <<"address", JStr("0xABC")>>, <<"verified_contract", JBool(TRUE)>>,
             <<"logo", JStr("https://logo/usdc.png")>> >>)
MetaPartial ==
    JDict(<< <<"symbol", JStr("USDC")>>, <<"decimals", JStr("6")>>,
             <<"address", JStr("0xABC")>>, <<"logo", JNull>> >>)
MetadataBodies ==
    {JList(q) : q \in SeqsUpTo({MetaFull, MetaPartial, JDict(<<>>)}, MaxItems)}
    \cup {JDict(<<>>)}

\* elements of the wallets/{address}/tokens answer
WalletTokenFull ==
    JDict(<< <<"name", JStr("USD Coin")>>, <<"symbol", JStr("USDC")>>,
             <<"balance_formatted", JStr("12.5")>>, <<"token_address", JStr("0xABC")>>,
             <<"verified_contract", JBool(TRUE)>>, <<"usd_price", JNum("1.01")>> >>)
WalletTokenNullPrice ==
    JDict(<< <<"name", JStr("Degen")>>, <<"symbol", JStr("DEGEN")>>,
             <<"balance_formatted", JStr("3")>>, <<"token_address", JStr("0xDEF")>>,
             <<"verified_contract", JBool(FALSE)>>, <<"usd_price", JNull>> >>)
WalletTokenNoPrice ==
    JDict(<< <<"name", JStr("Degen")>>, <<"symbol", JStr("DEGEN")>>,
             <<"balance_formatted", JStr("3")>>, <<"token_address", JStr("0xDEF")>>,
             <<"verified_contract", JBool(FALSE)>> >>)
WalletTokensBodies ==
    {JDict(<< <<"result", JList(q)>> >>) :
        q \in SeqsUpTo({WalletTokenFull, WalletTokenNullPrice, WalletTokenNoPrice}, MaxItems)}
    \cup {JDict(<<>>), JDict(<< <<"result", JNull>> >>)}

\* the discovery/token answer
Change(v) == JDict(<< <<"1d", JNum(v)>>, <<"1M", JNum(v)>> >>)
TokenDetailsFull ==
    JDict(<< <<"token_name", JStr("USD Coin")>>, <<"token_symbol", JStr("USDC")>>,
             <<"price_usd", JNum("1.01")>>, <<"market_cap", JNum("5000000")>>,
             <<"security_score", JNum("92")>>, <<"token_age_in_days", JNum("400")>>,
             <<"on_chain_strength_index", JNum("77")>>,
             <<"holders_change", Change("12")>>, <<"volume_change_usd", Change("-3.5")>>,
             <<"price_percent_change_usd", Change("0.2")>>,
             <<"token_logo", JStr("https://logo/usdc.png")>> >>)
TokenDetailsFlatOnly ==
    JDict(<< <<"token_name", JStr("USD Coin")>>, <<"token_symbol", JStr("USDC")>>,
             <<"price_usd", JNum("1.01")>> >>)
TokenDetailsEmptyNested ==
    JDict(<< <<"token_name", JStr("USD Coin")>>,
             <<"holders_change", JDict(<<>>)>>, <<"volume_change_usd", JDict(<<>>)>>,
             <<"price_percent_change_usd", JDict(<<>>)>> >>)
TokenDetailsNullNested ==
    JDict(<< <<"token_name", JStr("USD Coin")>>,
             <<"holders_change", JNull>>, <<"volume_change_usd", JNull>>,
             <<"price_percent_change_usd", JNull>> >>)
TokenDetailsBodies ==
    {TokenDetailsFull, TokenDetailsFlatOnly, TokenDetailsEmptyNested,
     TokenDetailsNullNested, JDict(<<>>)}

\* the {address}/nft answer
NftItem == JDict(<< <<"token_id", JStr("1")>>, <<"name", JStr("Ape")>> >>)
WalletNftsBodies ==
    {JDict(<< <<"result", JList(q)>> >>) : q \in SeqsUpTo({NftItem}, MaxItems)}

\* elements of the erc20/{address}/pairs answer
PairToken(n, s) == JDict(<< <<"token_name", JStr(n)>>, <<"token_symbol", JStr(s)>> >>)
PairFull ==
    JDict(<< <<"pair_label", JStr("WETH/USDC")>>, <<"usd_price", JStr("3000.5")>>,
             <<"usd_price_24hr_percent_change", JStr("-1.2")>>,
             <<"liquidity_usd", JStr("250000")>>, <<"exchange_address", JStr("0xE1")>>,
             <<"pair", JList(<<PairToken("Wrapped Ether", "WETH"),
                               PairToken("USD Coin", "USDC")>>)>> >>)
PairOneSided ==
    JDict(<< <<"pair_label", JStr("WETH/?")>>, <<"usd_price", JStr("3000.5")>>,
             <<"usd_price_24hr_percent_change", JNull>>,
             <<"liquidity_usd", JStr("10")>>, <<"exchange_address", JStr("0xE1")>>,
             <<"pair", JList(<<PairToken("Wrapped Ether", "WETH")>>)>> >>)
PairNoLiquidity ==
    JDict(<< <<"pair_label", JStr("WETH/USDC")>>, <<"usd_price", JStr("3000.5")>>,
             <<"usd_price_24hr_percent_change", JStr("-1.2")>>,
             <<"exchange_address", JStr("0xE1")>>,
             <<"pair", JList(<<PairToken("Wrapped Ether", "WETH"),
                               PairToken("USD Coin", "USDC")>>)>> >>)
TokenPairsBodies ==
    {JDict(<< <<"pairs", JList(q)>> >>) :
        q \in SeqsUpTo({PairFull, PairOneSided, PairNoLiquidity}, MaxItems)}
    \cup {JDict(<<>>), JDict(<< <<"pairs", JNull>> >>)}

\* elements of the discovery/tokens/trending answer
TrendingFull ==
    JDict(<< <<"token_name", JStr("Brett")>>, <<"token_symbol", JStr("BRETT")>>,
             <<"price_usd", JNum("0.09")>>, <<"market_cap", JNum("900000")>>,
             <<"security_score", JNum("85")>>, <<"token_logo", JNull>> >>)
TrendingNoLogo ==
    JDict(<< <<"token_name", JStr("Toshi")>>, <<"token_symbol", JStr("TOSHI")>>,
             <<"price_usd", JNum("0.0003")>>, <<"market_cap", JNum("300000")>>,
             <<"security_score", JNum("81")>> >>)
TrendingTokensBodies ==
    {JList(q) : q \in SeqsUpTo({TrendingFull, TrendingNoLogo}, MaxItems)}
    \cup {JDict(<<>>)}

\* the answers a GET can get when the body is drawn from Bodies
Responses(Bodies) == Failures \cup {Ok(b) : b \in Bodies}

(***************************************************************************)
(* The query functions.  Each takes its arguments and the answer the       *)
(* upstream gives to its GET, and yields the outcome of the call together  *)
(* with the requests it sent.                                              *)
(***************************************************************************)
\* a selector that knows "base" alone as the main network
Chain_BaseOnly(nid) == IF nid = "base" THEN "base" ELSE "base sepolia"

\* is_mainnet = Wallet.network_id in ["base", "base-mainnet"];
\* chain = "base" if is_mainnet else "base sepolia"
Chain(nid) == IF nid \in {"base", "base-mainnet"} THEN "base" ELSE "base sepolia"

\* requests.get(url, headers=headers, params=params)
Get(url, params) ==
    [url     |-> url,
     headers |-> [accept |-> "application/json", X_API_Key |-> MORALIS_API_KEY],
     params  |-> params]

\* a call that returned or raised after sending reqs
Done(out, reqs) == [out |-> out, reqs |-> reqs, deploys |-> <<>>]

\* requests.get and raise_for_status raised a RequestException
Failed(resp) == resp.kind \in {"transport", "http_error"}

\* a handler that lets the RequestException out instead of returning a text
ErrorFetching_Reraise(subject, resp) == Raise("RequestException")

\* except requests.exceptions.RequestException as e: return f"Error fetching ...: {str(e)}"
ErrorFetching(subject, resp) == Return("Error fetching " \o subject \o ": " \o resp.cause)

\* the report of get_token_metadata for one element of the answer
TokenMetadataReport(token_data) ==
    FString(<< Lit("Token Name: "),       Fld(DictGet(token_data, "name", JNull)),
               Lit("\nSymbol: "),         Fld(DictGet(token_data, "symbol", JNull)),
               Lit("\nDecimals: "),       Fld(DictGet(token_data, "decimals", JNull)),
               Lit("\nTotal Supply: "),   Fld(DictGet(token_data, "total_supply_formatted", JNull)),
               Lit("\nContract Address: "), Fld(DictGet(token_data, "address", JNull)),
               Lit("\nVerified: "),       Fld(DictGet(token_data, "verified_contract", JNull)),
               Lit("\nLogo URL: "),       Fld(DictGet(token_data, "logo", JNull)),
               Lit("\n") >>)

get_token_metadata(token_address, resp) ==
    IF KeyMissing(MORALIS_API_KEY)
    THEN Done(Return("Error: Moralis API key is missing. Please set the MORALIS_API_KEY environment variable."),
              <<>>)
    ELSE LET req == Get("https://deep-index.moralis.io/api/v2.2/erc20/metadata",
                        ("chain" :> Chain(network_id)) @@ ("addresses[0]" :> token_address))
             metadata   == resp.json
             token_data == SubIdx(metadata, 0)
             out == IF Failed(resp) THEN ErrorFetching("token metadata", resp)
                    ELSE IF ~Truthy(metadata)
                         THEN Return("No metadata found for the provided token address.")
                    ELSE IF ~token_data.ok THEN Raise(token_data.exc)
                    ELSE TokenMetadataReport(token_data.v)
         IN  Done(out, <<req>>)

\* one block of the get_wallet_tokens report
WalletTokenBlock(token) ==
    FString(<< Lit("Token: "),     Fld(Sub(token, "name")),
               Lit(" ("),          Fld(Sub(token, "symbol")),
               Lit(")\nBalance: "), Fld(Sub(token, "balance_formatted")),
               Lit(" "),           Fld(Sub(token, "symbol")),
               Lit("\nContract Address: "), Fld(Sub(token, "token_address")),
               Lit("\nVerified: "),
               Fld(YesNo(Sub(token, "verified_contract"))),
               Lit("\nPrice (USD): "),
               Fld(OrNA(Sub(token, "usd_price"))),
               Lit("\n") >>)

\* f"{header}{sep.join(blocks)}", blocks being [Block(x) for x in seq]
ListReport(header, seq, blocks) ==
    LET body == JoinOutcomes("\n", blocks)
    IN  IF ~seq.ok THEN Raise(seq.exc)
        ELSE IF body.kind = "raise" THEN body
        ELSE Return(header \o body.text)

get_wallet_tokens(token_address, resp) ==
    LET address_id == token_address
        req == Get("https://deep-index.moralis.io/api/v2.2/wallets/" \o address_id \o "/tokens",
                   [chain |-> Chain(network_id)])
        tokens == DictGet(resp.json, "result", JList(<<>>))
        seq    == Iterate(tokens.v)
        blocks == [i \in 1..Len(seq.v) |-> WalletTokenBlock(seq.v[i])]
        out == IF Failed(resp) THEN ErrorFetching("wallet tokens", resp)
               ELSE IF ~tokens.ok THEN Raise(tokens.exc)
               ELSE IF Truthy(tokens.v)
                    THEN ListReport("Tokens held by " \o address_id \o ":\n", seq, blocks)
               ELSE Return("No tokens found for wallet " \o address_id \o ".")
    IN  Done(out, <<req>>)

\* the report of get_token_details
TokenDetailsReport(token_data) ==
    FString(<< Lit("Token Name: "),     Fld(DictGet(token_data, "token_name", JNull)),
               Lit("\nSymbol: "),       Fld(DictGet(token_data, "token_symbol", JNull)),
               Lit("\nPrice (USD): "),  Fld(DictGet(token_data, "price_usd", JNull)),
               Lit("\nMarket Cap: "),   Fld(DictGet(token_data, "market_cap", JNull)),
               Lit("\nSecurity Score: "), Fld(DictGet(token_data, "security_score", JNull)),
               Lit("\nToken Age (days): "), Fld(DictGet(token_data, "token_age_in_days", JNull)),
               Lit("\nOn-Chain Strength Index: "),
               Fld(DictGet(token_data, "on_chain_strength_index", JNull)),
               Lit("\n1-Day Holders Change: "),
               Fld(GetOf(Sub(token_data, "holders_change"), "1d")),
               Lit("\n1-Day Volume Change (USD): "),
               Fld(GetOf(Sub(token_data, "volume_change_usd"), "1d")),
               Lit("\n1-Month Price Change (%): "),
               Fld(GetOf(Sub(token_data, "price_percent_change_usd"), "1M")),
               Lit("\nLogo: "),         Fld(DictGet(token_data, "token_logo", JNull)),
               Lit("\n") >>)

get_token_details(token_address, resp) ==
    LET req == Get("https://deep-index.moralis.io/api/v2.2/discovery/token",
                   [chain |-> Chain(network_id), token_address |-> token_address])
        out == IF Failed(resp) THEN ErrorFetching("token details", resp)
               ELSE TokenDetailsReport(resp.json)
    IN  Done(out, <<req>>)

get_wallet_nfts(token_address, resp) ==
    LET wallet_address == token_address
        req == Get("https://deep-index.moralis.io/api/v2.2/" \o wallet_address \o "/nft",
                   [chain |-> Chain(network_id), format |-> "decimal", media_items |-> "false"])
        out == IF Failed(resp) THEN ErrorFetching("wallet NFTs", resp)
               ELSE Return(resp.text)
    IN  Done(out, <<req>>)

\* pair['pair'][i][k]
PairSide(pair, i, k) == SubOf(SubIdxOf(Sub(pair, "pair"), i), k)

\* one block of the get_token_pairs report
TokenPairBlock(pair) ==
    FString(<< Lit("Pair: "),            Fld(Sub(pair, "pair_label")),
               Lit("\nPrice (USD): "),   Fld(Sub(pair, "usd_price")),
               Lit("\n24hr Price Change (%): "),
               Fld(Sub(pair, "usd_price_24hr_percent_change")),
               Lit("\nLiquidity (USD): "), Fld(Sub(pair, "liquidity_usd")),
               Lit("\nExchange Address: "), Fld(Sub(pair, "exchange_address")),
               Lit("\nBase Token: "),    Fld(PairSide(pair, 0, "token_name")),
               Lit(" ("),                Fld(PairSide(pair, 0, "token_symbol")),
               Lit(")\nQuote Token: "),  Fld(PairSide(pair, 1, "token_name")),
               Lit(" ("),                Fld(PairSide(pair, 1, "token_symbol")),
               Lit(")\n") >>)

get_token_pairs(token_address, resp) ==
    LET req == Get("https://deep-index.moralis.io/api/v2.2/erc20/" \o token_address \o "/pairs",
                   [chain |-> Chain(network_id)])
        pairs  == DictGet(resp.json, "pairs", JList(<<>>))
        seq    == Iterate(pairs.v)
        blocks == [i \in 1..Len(seq.v) |-> TokenPairBlock(seq.v[i])]
        out == IF Failed(resp) THEN ErrorFetching("token pairs", resp)
               ELSE IF ~pairs.ok THEN Raise(pairs.exc)
               ELSE IF Truthy(pairs.v)
                    THEN ListReport("Trading pairs for token " \o token_address \o ":\n",
                                    seq, blocks)
               ELSE Return("No trading pairs found for token " \o token_address \o ".")
    IN  Done(out, <<req>>)

\* one block of the get_trending_tokens report
TrendingTokenBlock(token) ==
    FString(<< Lit("Token Name: "),     Fld(Sub(token, "token_name")),
               Lit(" ("),               Fld(Sub(token, "token_symbol")),
               Lit(")\nPrice (USD): "), Fld(Sub(token, "price_usd")),
               Lit("\nMarket Cap: "),   Fld(Sub(token, "market_cap")),
               Lit("\nSecurity Score: "), Fld(Sub(token, "security_score")),
               Lit("\nLogo: "),         Fld(Sub(token, "token_logo")),
               Lit("\n") >>)

get_trending_tokens(security_score, min_market_cap, resp) ==
    LET req == Get("https://deep-index.moralis.io/api/v2.2/discovery/tokens/trending",
                   [chain |-> "base", security_score |-> security_score,
                    min_market_cap |-> min_market_cap])
        seq    == Iterate(resp.json)
        blocks == [i \in 1..Len(seq.v) |-> TrendingTokenBlock(seq.v[i])]
        out == IF Failed(resp) THEN ErrorFetching("trending tokens", resp)
               ELSE ListReport("Trending Tokens:\n", seq, blocks)
    IN  Done(out, <<req>>)

(***************************************************************************)
(* deploy_multi_token, the one tool that is not a query.                   *)
(***************************************************************************)
\* sub in s
Contains(s, sub) ==
    \E i \in 1..(Len(s) - Len(sub) + 1) : SubSeq(s, i, i + Len(sub) - 1) = sub

\* base URIs the decision loop passes
BaseUris ==
    {"https://example.com/metadata/{id}.json", "{id}",
     "https://example.com/metadata/id.json", "ipfs://meta/{ID}.json",
     "https://example.com/metadata/{id", ""}

\* what wallet.deploy_multi_token(...).wait() gives: a contract, or an SDK error
DeployAnswers ==
    {[kind |-> "deployed",  cause |-> "",         text |-> "0xC0DE", json |-> JNull],
     [kind |-> "sdk_error", cause |-> "ApiError", text |-> "",       json |-> JNull]}

\* a deploy_multi_token that hands every base_uri to the wallet
deploy_multi_token_Unchecked(base_uri, resp) ==
    [out |-> IF resp.kind = "sdk_error" THEN Raise(resp.cause)
             ELSE Return("Successfully deployed multi-token contract at address:"
                         \o resp.text),
     reqs |-> <<>>, deploys |-> <<base_uri>>]

deploy_multi_token(base_uri, resp) ==
    IF ~Contains(base_uri, "{id}")
    THEN [out |-> Raise("ValueError"), reqs |-> <<>>, deploys |-> <<>>]
    ELSE [out |-> IF resp.kind = "sdk_error" THEN Raise(resp.cause)
                  ELSE Return("Successfully deployed multi-token contract at address:"
                              \o resp.text),
          reqs |-> <<>>, deploys |-> <<base_uri>>]

(***************************************************************************)
(* Input schemas, signatures and the registered tools.                     *)
(***************************************************************************)
\* a required string field: Field(...)
StrField(name) ==
    [name |-> name, required |-> TRUE, default |-> "",
     has_ge |-> FALSE, ge |-> 0, has_le |-> FALSE, le |-> 0]

DeployMultiTokenInput == << StrField("base_uri") >>
TokenMetadataInput    == << StrField("token_address") >>
WalletTokensInput     == << StrField("chain") >>
TokenDetailsInput     == << StrField("token_address") >>
WalletNftsInput       == << StrField("token_address") >>
TokenPairsInput       == << StrField("token_address") >>
\* the trending schema with le=100 left off security_score
TrendingTokensInput_NoUpperBound ==
    << [name |-> "security_score", required |-> FALSE, default |-> 80,
        has_ge |-> TRUE, ge |-> 0, has_le |-> FALSE, le |-> 0],
       [name |-> "min_market_cap", required |-> FALSE, default |-> 100000,
        has_ge |-> TRUE, ge |-> 0, has_le |-> FALSE, le |-> 0] >>

TrendingTokensInput ==
    << [name |-> "security_score", required |-> FALSE, default |-> 80,
        has_ge |-> TRUE, ge |-> 0, has_le |-> TRUE, le |-> 100],
       [name |-> "min_market_cap", required |-> FALSE, default |-> 100000,
        has_ge |-> TRUE, ge |-> 0, has_le |-> FALSE, le |-> 0] >>

\* the class an args_schema names
Schema(name) ==
    CASE name = "DeployMultiTokenInput" -> DeployMultiTokenInput
      [] name = "TokenMetadataInput"    -> TokenMetadataInput
      [] name = "WalletTokensInput"     -> WalletTokensInput
      [] name = "TokenDetailsInput"     -> TokenDetailsInput
      [] name = "WalletNftsInput"       -> WalletNftsInput
      [] name = "TokenPairsInput"       -> TokenPairsInput
      [] OTHER                          -> TrendingTokensInput

\* a parameter of a def: required, or with a default
Param(name)            == [name |-> name, required |-> TRUE,  default |-> ""]
ParamDefault(name, d)  == [name |-> name, required |-> FALSE, default |-> d]

\* the keyword parameters of each function (the wallet of deploy_multi_token
\* is supplied by the toolkit wrapper, not by the request)
Signature(func) ==
    CASE func = "deploy_multi_token"  -> << Param("base_uri") >>
      [] func = "get_trending_tokens" -> << ParamDefault("security_score", 80),
                                            ParamDefault("min_market_cap", 100000) >>
      [] OTHER                        -> << Param("token_address") >>

\* the names a sequence of fields or parameters declares
Names(fields) == {fields[i].name : i \in 1..Len(fields)}

\* the field or parameter called n
Named(fields, n) == fields[CHOOSE i \in 1..Len(fields) : fields[i].name = n]

\* a keyword-argument dict, or the exception building it raised
Args(kw)    == [ok |-> TRUE,  kw |-> kw,   exc |-> ""]
NoArgs(e)   == [ok |-> FALSE, kw |-> <<>>, exc |-> e]

\* one field's value passes its constraints
FieldOk(f, x) == (f.has_ge => x >= f.ge) /\ (f.has_le => x <= f.le)

\* args_schema(**kwargs).model_dump(): every declared field, defaults filled
\* in, undeclared keys dropped; a missing required field or a value out of
\* bounds is a ValidationError
Validate(schema, kwargs) ==
    IF \E n \in Names(schema) :
           \/ n \notin DOMAIN kwargs /\ Named(schema, n).required
           \/ n \in DOMAIN kwargs /\ ~FieldOk(Named(schema, n), kwargs[n])
    THEN NoArgs("ValidationError")
    ELSE Args([n \in Names(schema) |->
                  IF n \in DOMAIN kwargs THEN kwargs[n] ELSE Named(schema, n).default])

\* func(**kwargs): Python's binding of keyword arguments to parameters
Bind(sig, kwargs) ==
    IF \/ \E k \in DOMAIN kwargs : k \notin Names(sig)
       \/ \E n \in Names(sig) : Named(sig, n).required /\ n \notin DOMAIN kwargs
    THEN NoArgs("TypeError")
    ELSE Args([n \in Names(sig) |->
                  IF n \in DOMAIN kwargs THEN kwargs[n] ELSE Named(sig, n).default])

\* func(**kwargs) with resp the answer of the outside world
Apply(func, kwargs, resp) ==
    LET b == Bind(Signature(func), kwargs)
    IN  IF ~b.ok THEN [out |-> Raise(b.exc), reqs |-> <<>>, deploys |-> <<>>]
        ELSE CASE func = "deploy_multi_token" -> deploy_multi_token(b.kw["base_uri"], resp)
               [] func = "get_token_metadata" -> get_token_metadata(b.kw["token_address"], resp)
               [] func = "get_wallet_tokens"  -> get_wallet_tokens(b.kw["token_address"], resp)
               [] func = "get_token_details"  -> get_token_details(b.kw["token_address"], resp)
               [] func = "get_wallet_nfts"    -> get_wallet_nfts(b.kw["token_address"], resp)
               [] func = "get_token_pairs"    -> get_token_pairs(b.kw["token_address"], resp)
               [] OTHER -> get_trending_tokens(b.kw["security_score"],
                                               b.kw["min_market_cap"], resp)

\* CdpTool(name=..., args_schema=..., func=...)
CdpTool(name, args_schema, func) == [name |-> name, args_schema |-> args_schema, func |-> func]

\* the tools initialize_agent adds to the toolkits' own, in the order of tools.extend
RegisteredTools ==
    << CdpTool("deploy_multi_token",  "DeployMultiTokenInput", "deploy_multi_token"),
       CdpTool("get_token_metadata",  "TokenMetadataInput",    "get_token_metadata"),
       CdpTool("get_token_pairs",     "TokenPairsInput",       "get_token_pairs"),
       CdpTool("get_wallet_tokens",   "WalletTokensInput",     "get_wallet_tokens"),
       CdpTool("get_token_details",   "TokenDetailsInput",     "get_token_details"),
       CdpTool("get_wallet_nfts",     "WalletNftsInput",       "get_wallet_nfts"),
       CdpTool("get_trending_tokens", "TrendingTokensInput",   "get_trending_tokens") >>

MetadataAnswers       == Responses(MetadataBodies)
WalletTokensAnswers   == Responses(WalletTokensBodies)
TokenDetailsAnswers   == Responses(TokenDetailsBodies)
WalletNftsAnswers     == Responses(WalletNftsBodies)
TokenPairsAnswers     == Responses(TokenPairsBodies)
TrendingTokensAnswers == Responses(TrendingTokensBodies)

\* the answers the outside world can give to a call of func
Answers(func) ==
    CASE func = "deploy_multi_token"  -> DeployAnswers
      [] func = "get_token_metadata"  -> MetadataAnswers
      [] func = "get_wallet_tokens"   -> WalletTokensAnswers
      [] func = "get_token_details"   -> TokenDetailsAnswers
      [] func = "get_wallet_nfts"     -> WalletNftsAnswers
      [] func = "get_token_pairs"     -> TokenPairsAnswers
      [] OTHER                        -> TrendingTokensAnswers

\* the six query functions
QueryFunctions ==
    {"get_token_metadata", "get_wallet_tokens", "get_token_details",
     "get_wallet_nfts", "get_token_pairs", "get_trending_tokens"}

\* keyword-argument dicts with one string argument
OneArg(name, S) == {[k \in {name} |-> x] : x \in S}

\* the empty keyword-argument dict
NoKwargs == [k \in {} |-> ""]

\* filters passed to get_trending_tokens, any of them possibly left out
ScoreValues == {0 - 1, 0, 80, 100, 101, 150}
CapValues   == {0 - 1, 0, 100000, 5000000}
TrendingKwargs ==
    {NoKwargs}
    \cup {[k \in {"security_score"} |-> x] : x \in ScoreValues}
    \cup {[k \in {"min_market_cap"} |-> y] : y \in CapValues}
    \cup {[k \in {"security_score", "min_market_cap"} |->
              IF k = "security_score" THEN x ELSE y] : x \in ScoreValues, y \in CapValues}

\* the inputs the decision loop can hand to a tool
ToolInputs(func) ==
    CASE func = "deploy_multi_token"  -> {NoKwargs} \cup OneArg("base_uri", BaseUris)
      [] func = "get_trending_tokens" -> TrendingKwargs
      [] OTHER -> {NoKwargs} \cup OneArg("token_address", Addresses)
                  \cup OneArg("chain", Addresses)

(***************************************************************************)
(* The state before anything ran, and the calls of the functions and tools. *)
(***************************************************************************)
NoCall == [func |-> "none", via |-> "none", kwargs |-> NoKwargs]

Init ==
    /\ MORALIS_API_KEY \in ApiKeys
    /\ network_id = "base-sepolia"
    /\ tools = <<>>
    /\ call = NoCall
    /\ requests_sent = <<>>
    /\ response = NoResponse
    /\ deployments = <<>>
    /\ result = NoResult
    /\ event = "none"
    /\ pc = "start"
    /\ mode = "none"
    /\ user_input = ""
    /\ reads = 0
    /\ prompts = <<>>
    /\ output = <<>>
    /\ sleep_for = 0
    /\ exit_status = "running"

\* the wallet moves to another network
SwitchNetwork ==
    /\ \E n \in NetworkIds \ {network_id} : network_id' = n
    /\ UNCHANGED <<MORALIS_API_KEY, tools, call, requests_sent, response, deployments, result>>
    /\ UNCHANGED driverVars

\* tools.extend([...]) of initialize_agent
initialize_agent == tools' = RegisteredTools

InitializeAgent ==
    /\ tools = <<>>
    /\ initialize_agent
    /\ UNCHANGED <<MORALIS_API_KEY, network_id, call, requests_sent, response, deployments, result>>
    /\ UNCHANGED driverVars

\* the state after a call that went as d, the outside world answering resp
Record(func, via, kwargs, resp, d) ==
    /\ call' = [func |-> func, via |-> via, kwargs |-> kwargs]
    /\ requests_sent' = d.reqs
    /\ deployments' = d.deploys
    /\ response' = IF d.reqs = <<>> /\ d.deploys = <<>> THEN NoResponse ELSE resp
    /\ result' = d.out
    /\ UNCHANGED <<MORALIS_API_KEY, network_id, tools>>
    /\ UNCHANGED driverVars

\* a caller calls the function itself, func(**kwargs); nothing here runs in
\* parallel, so a call starts when none is under way
CallDeployMultiToken ==
    /\ call = NoCall
    /\ \E kw \in OneArg("base_uri", BaseUris), resp \in Answers("deploy_multi_token") :
          Record("deploy_multi_token", "direct", kw, resp, Apply("deploy_multi_token", kw, resp))

CallGetTokenMetadata ==
    /\ call = NoCall
    /\ \E kw \in OneArg("token_address", Addresses), resp \in Answers("get_token_metadata") :
          Record("get_token_metadata", "direct", kw, resp, Apply("get_token_metadata", kw, resp))

CallGetWalletTokens ==
    /\ call = NoCall
    /\ \E kw \in OneArg("token_address", Addresses), resp \in Answers("get_wallet_tokens") :
          Record("get_wallet_tokens", "direct", kw, resp, Apply("get_wallet_tokens", kw, resp))

CallGetTokenDetails ==
    /\ call = NoCall
    /\ \E kw \in OneArg("token_address", Addresses), resp \in Answers("get_token_details") :
          Record("get_token_details", "direct", kw, resp, Apply("get_token_details", kw, resp))

CallGetWalletNfts ==
    /\ call = NoCall
    /\ \E kw \in OneArg("token_address", Addresses), resp \in Answers("get_wallet_nfts") :
          Record("get_wallet_nfts", "direct", kw, resp, Apply("get_wallet_nfts", kw, resp))

CallGetTokenPairs ==
    /\ call = NoCall
    /\ \E kw \in OneArg("token_address", Addresses), resp \in Answers("get_token_pairs") :
          Record("get_token_pairs", "direct", kw, resp, Apply("get_token_pairs", kw, resp))

CallGetTrendingTokens ==
    /\ call = NoCall
    /\ \E kw \in TrendingKwargs, resp \in Answers("get_trending_tokens") :
          Record("get_trending_tokens", "direct", kw, resp, Apply("get_trending_tokens", kw, resp))

\* tool.run(tool_input): the input is validated against args_schema, and only
\* a valid one reaches the bound function
RunTool(tool, tool_input, resp) ==
    LET v == Validate(Schema(tool.args_schema), tool_input)
    IN  IF ~v.ok THEN [out |-> Raise(v.exc), reqs |-> <<>>, deploys |-> <<>>]
        ELSE Apply(tool.func, v.kw, resp)

\* the decision loop runs one of the registered tools
ToolRun ==
    /\ call = NoCall
    /\ \E i \in 1..Len(tools) :
          \E tool_input \in ToolInputs(tools[i].func), resp \in Answers(tools[i].func) :
              Record(tools[i].func, "tool", tool_input, resp,
                     RunTool(tools[i], tool_input, resp))

\* the caller has taken the outcome of the call
ReturnToCaller ==
    /\ call # NoCall
    /\ call' = NoCall
    /\ requests_sent' = <<>>
    /\ response' = NoResponse
    /\ deployments' = <<>>
    /\ result' = NoResult
    /\ UNCHANGED <<MORALIS_API_KEY, network_id, tools>>
    /\ UNCHANGED driverVars

(***************************************************************************)
(* The session driver: main, choose_mode and the two run loops.            *)
(***************************************************************************)
UpperCase == "ABCDEFGHIJKLMNOPQRSTUVWXYZ"
LowerCase == "abcdefghijklmnopqrstuvwxyz"

\* a lower() that leaves every character as it is
LowerChar_Identity(c) == c

\* c.lower() of one character
LowerChar(c) ==
    IF \E i \in 1..Len(UpperCase) : SubSeq(UpperCase, i, i) = c
    THEN LET i == CHOOSE k \in 1..Len(UpperCase) : SubSeq(UpperCase, k, k) = c
         IN  SubSeq(LowerCase, i, i)
    ELSE c

RECURSIVE Lower(_)
\* s.lower()
Lower(s) ==
    IF Len(s) = 0 THEN ""
    ELSE LowerChar(SubSeq(s, 1, 1)) \o Lower(SubSeq(s, 2, Len(s)))

IsSpace(c) == c \in {" ", "\t", "\n", "\r"}

RECURSIVE Strip(_)
\* s.strip()
Strip(s) ==
    IF Len(s) = 0 THEN ""
    ELSE IF IsSpace(SubSeq(s, 1, 1)) THEN Strip(SubSeq(s, 2, Len(s)))
    ELSE IF IsSpace(SubSeq(s, Len(s), Len(s))) THEN Strip(SubSeq(s, 1, Len(s) - 1))
    ELSE s

\* lines typed at the mode prompt
ModeInputs == {"1", "chat", " Chat ", "2", "AUTO", "3", "12", ""}

\* lines typed at the chat prompt
ChatInputs == {"exit", "EXIT", "eXiT", " exit", "hello"}

\* def run_autonomous_mode(agent_executor, config, interval=10), which main
\* calls without an interval
interval == 10

\* the fixed prompt of autonomous mode
thought ==
    "Be creative and do something interesting on the blockchain. "
    \o "Choose an action or set of actions and execute it that highlights                      your abilities."

\* the events the decision loop streams: the key of the chunk and its text
Chunks ==
    {[key |-> "agent", content |-> "I will check the wallet."],
     [key |-> "tools", content |-> "No tokens found for wallet 0xABC."],
     [key |-> "other", content |-> ""]}

\* print(...) of each of lines
Printed(lines) == output' = output \o lines

\* the menu choose_mode prints, and the prompt of its input()
Menu ==
    << "\nAvailable modes:", "1. chat    - Interactive chat mode",
       "2. auto    - Autonomous action mode", "\nChoose a mode (enter number or name): " >>

\* python chatbot.py: the banner, initialize_agent, then choose_mode blocks on input()
Main ==
    /\ pc = "start"
    /\ event' = "start"
    /\ initialize_agent
    /\ Printed(<<"Starting Agent...">> \o Menu)
    /\ pc' = "choose_mode"
    /\ UNCHANGED <<MORALIS_API_KEY, network_id, call, requests_sent, response, deployments, result>>
    /\ UNCHANGED <<mode, user_input, reads, prompts, sleep_for, exit_status>>

\* choose_mode's value for a line, "" when the line is no choice
\* a choose_mode that compares the lower-cased line without trimming it
ModeOf_NoStrip(line) ==
    LET choice == Lower(line)
    IN  IF choice \in {"1", "chat"} THEN "chat"
        ELSE IF choice \in {"2", "auto"} THEN "auto"
        ELSE ""

ModeOf(line) ==
    LET choice == Strip(Lower(line))
    IN  IF choice \in {"1", "chat"} THEN "chat"
        ELSE IF choice \in {"2", "auto"} THEN "auto"
        ELSE ""

\* choose_mode reads a line; main starts the loop of the mode it returns:
\* run_chat_mode blocks on its first input(), run_autonomous_mode streams
\* its first prompt
ChooseMode ==
    /\ pc = "choose_mode"
    /\ reads < MaxReads
    /\ event' = "line"
    /\ \E line \in ModeInputs :
          /\ user_input' = line
          /\ reads' = reads + 1
          /\ CASE ModeOf(line) = "chat" ->
                    /\ mode' = "chat"
                    /\ Printed(<<"Starting chat mode... Type 'exit' to end.", "\nUser: ">>)
                    /\ pc' = "chat_input"
                    /\ UNCHANGED prompts
               [] ModeOf(line) = "auto" ->
                    /\ mode' = "auto"
                    /\ Printed(<<"Starting autonomous mode...">>)
                    /\ prompts' = Append(prompts, thought)
                    /\ pc' = "auto_stream"
               [] OTHER ->
                    /\ Printed(<<"Invalid choice. Please try again.">> \o Menu)
                    /\ UNCHANGED <<pc, mode, prompts>>
    /\ UNCHANGED <<sleep_for, exit_status>>
    /\ UNCHANGED toolVars

\* run_chat_mode reads a line: "exit" in any case leaves the loop, and main
\* and the process end; any other line goes to agent_executor.stream
ChatInput ==
    /\ pc = "chat_input"
    /\ reads < MaxReads
    /\ event' = "line"
    /\ \E line \in ChatInputs :
          /\ user_input' = line
          /\ reads' = reads + 1
          /\ IF Lower(line) = "exit"
             THEN /\ pc' = "exited"
                  /\ exit_status' = "0"
                  /\ UNCHANGED prompts
             ELSE /\ Len(prompts) < MaxTurns
                  /\ prompts' = Append(prompts, line)
                  /\ pc' = "chat_stream"
                  /\ UNCHANGED exit_status
    /\ UNCHANGED <<mode, output, sleep_for>>
    /\ UNCHANGED toolVars

\* the chunks streamed for the prompt under way
Streamed == Len(SelectSeq(output, LAMBDA l : l = "-------------------"))

\* one pass of `for chunk in agent_executor.stream(...)`
StreamChunk ==
    /\ pc \in {"chat_stream", "auto_stream"}
    /\ Streamed < MaxChunks * Len(prompts)
    /\ event' = "chunk"
    /\ \E chunk \in Chunks :
          Printed((IF chunk.key \in {"agent", "tools"} THEN <<chunk.content>> ELSE <<>>)
                  \o <<"-------------------">>)
    /\ UNCHANGED <<pc, mode, user_input, reads, prompts, sleep_for, exit_status>>
    /\ UNCHANGED toolVars

\* the stream is exhausted: chat mode blocks on input() again, autonomous
\* mode goes to time.sleep(interval)
StreamEnd ==
    /\ pc \in {"chat_stream", "auto_stream"}
    /\ event' = "end of stream"
    /\ IF pc = "chat_stream"
       THEN pc' = "chat_input" /\ Printed(<<"\nUser: ">>) /\ UNCHANGED sleep_for
       ELSE pc' = "auto_sleep" /\ sleep_for' = interval /\ UNCHANGED output
    /\ UNCHANGED <<mode, user_input, reads, prompts, exit_status>>
    /\ UNCHANGED toolVars

\* the stream raises an exception other than KeyboardInterrupt: neither loop
\* catches it, and the process dies of it
StreamError ==
    /\ pc \in {"chat_stream", "auto_stream"}
    /\ event' = "stream error"
    /\ pc' = "exited"
    /\ exit_status' = "1"
    /\ UNCHANGED <<mode, user_input, reads, prompts, output, sleep_for>>
    /\ UNCHANGED toolVars

\* time.sleep(interval) returns and the next iteration streams the prompt
Wake ==
    /\ pc = "auto_sleep"
    /\ Len(prompts) < MaxTurns
    /\ event' = "timer"
    /\ prompts' = Append(prompts, thought)
    /\ pc' = "auto_stream"
    /\ sleep_for' = 0
    /\ UNCHANGED <<mode, user_input, reads, output, exit_status>>
    /\ UNCHANGED toolVars

\* the run loops with time.sleep left outside the try block
InLoop_SleepOutsideTry == {"chat_input", "chat_stream", "auto_stream"}

\* the places of the run loops, all inside their try blocks
InLoop == {"chat_input", "chat_stream", "auto_stream", "auto_sleep"}

\* except KeyboardInterrupt: print("Goodbye Agent!"); sys.exit(0)
Farewell ==
    /\ Printed(<<"Goodbye Agent!">>)
    /\ exit_status' = "0"
    /\ pc' = "exited"

\* the places where the process is running
Running == {"choose_mode", "chat_input", "chat_stream", "auto_stream", "auto_sleep"}

\* Ctrl-C: caught inside the try blocks of the run loops; anywhere else
\* nothing catches the KeyboardInterrupt and the process dies of it
Interrupt ==
    /\ pc \in Running
    /\ event' = "interrupt"
    /\ IF pc \in InLoop
       THEN Farewell
       ELSE /\ pc' = "exited"
            /\ exit_status' = "130"
            /\ UNCHANGED output
    /\ UNCHANGED <<mode, user_input, reads, prompts, sleep_for>>
    /\ UNCHANGED toolVars

Next ==
    \/ SwitchNetwork
    \/ InitializeAgent
    \/ CallDeployMultiToken
    \/ CallGetTokenMetadata
    \/ CallGetWalletTokens
    \/ CallGetTokenDetails
    \/ CallGetWalletNfts
    \/ CallGetTokenPairs
    \/ CallGetTrendingTokens
    \/ ToolRun
    \/ ReturnToCaller

Spec == Init /\ [][Next]_vars

NextDriver ==
    \/ Main
    \/ ChooseMode
    \/ ChatInput
    \/ StreamChunk
    \/ StreamEnd
    \/ StreamError
    \/ Wake
    \/ Interrupt

\* the driver does not depend on the key: one value of it is enough
InitDriver == Init /\ MORALIS_API_KEY = "secret"

SpecDriver == InitDriver /\ [][NextDriver]_vars

(***************************************************************************)
(* The properties of the query functions.                                  *)
(***************************************************************************)
\* s begins with prefix
StartsWith(s, prefix) == Len(s) >= Len(prefix) /\ SubSeq(s, 1, Len(prefix)) = prefix

\* the subject by which the error text of each function names its operation
SubjectOf(func) ==
    CASE func = "get_token_metadata"  -> "token metadata"
      [] func = "get_wallet_tokens"   -> "wallet tokens"
      [] func = "get_token_details"   -> "token details"
      [] func = "get_wallet_nfts"     -> "wallet NFTs"
      [] func = "get_token_pairs"     -> "token pairs"
      [] OTHER                        -> "trending tokens"

\* C1: whatever the upstream answers, a call of a query function returns a
\* text and no exception propagates to the caller.
C1_NoExceptionPropagates ==
    (call.func \in QueryFunctions /\ call.via = "direct") => result.kind = "return"

\* C2: when the API key is absent, every query function returns a
\* configuration-error text and sends no HTTP request.
C2_NoRequestWithoutKey ==
    (call.func \in QueryFunctions /\ call.via = "direct" /\ MORALIS_API_KEY \in {PyNone, ""})
        => /\ requests_sent = <<>>
           /\ result.kind = "return"
           /\ StartsWith(result.text, "Error: Moralis API key is missing")

\* C3: a transport failure or a non-success HTTP status on the single GET of
\* a query function yields the returned text "Error fetching <subject>:
\* <cause>", which begins with "Error " and names the operation.
C3_FailureIsErrorText ==
    (call.func \in QueryFunctions /\ response.kind \in {"transport", "http_error"})
        => /\ Len(requests_sent) = 1
           /\ result.kind = "return"
           /\ StartsWith(result.text, "Error ")
           /\ result.text = "Error fetching " \o SubjectOf(call.func) \o ": " \o response.cause

\* C3 witness: get_trending_tokens met a transport failure and returned its error text
C3_Witness ==
    /\ call.func = "get_trending_tokens"
    /\ response.kind = "transport"
    /\ result = Return("Error fetching trending tokens: Connection refused")

\* the payload of a success answer is an empty result set for func
EmptyResultSet(func, body) ==
    CASE func = "get_token_metadata"  -> body = JList(<<>>)
      [] func = "get_wallet_tokens"   -> body = JDict(<< <<"result", JList(<<>>)>> >>)
      [] func = "get_wallet_nfts"     -> body = JDict(<< <<"result", JList(<<>>)>> >>)
      [] func = "get_token_pairs"     -> body = JDict(<< <<"pairs", JList(<<>>)>> >>)
      [] func = "get_trending_tokens" -> body = JList(<<>>)
      [] OTHER                        -> body = JDict(<<>>)

\* C4: a success answer carrying an empty result set yields a "no ... found"
\* message: not an error text, and not a report header with no entries.
C4_EmptyIsNoDataMessage ==
    (call.func \in QueryFunctions /\ response.kind = "ok"
        /\ EmptyResultSet(call.func, response.json))
        => /\ result.kind = "return"
           /\ StartsWith(result.text, "No ")
           /\ Contains(result.text, " found")

\* the chain a request built on network nid must name
ChainFor(func, nid) ==
    IF func = "get_trending_tokens" THEN "base"
    ELSE IF nid = "base" \/ nid = "base-mainnet" THEN "base" ELSE "base sepolia"

C6_SchemaDeclaresParameters ==
    \A i \in 1..Len(tools) :
        Names(Signature(tools[i].func)) \subseteq Names(Schema(tools[i].args_schema))

\* the filter a trending request carries when the caller passed kwargs
FilterSent(kwargs, name, dflt) == IF name \in DOMAIN kwargs THEN kwargs[name] ELSE dflt

\* the trending input breaks the bounds of its schema
OutOfBounds(kwargs) ==
    \/ "security_score" \in DOMAIN kwargs
          /\ (kwargs["security_score"] < 0 \/ kwargs["security_score"] > 100)
    \/ "min_market_cap" \in DOMAIN kwargs /\ kwargs["min_market_cap"] < 0

\* C7: get_trending_tokens asks for security_score 80 and min_market_cap
\* 100000 when the caller leaves them out, and a tool input outside the
\* bounds of the schema is rejected by validation with no request sent.
C7_TrendingDefaultsAndBounds ==
    call.func = "get_trending_tokens" =>
        /\ requests_sent # <<>> =>
              /\ requests_sent[1].params.security_score
                     = FilterSent(call.kwargs, "security_score", 80)
              /\ requests_sent[1].params.min_market_cap
                     = FilterSent(call.kwargs, "min_market_cap", 100000)
        /\ (call.via = "tool" /\ OutOfBounds(call.kwargs)) =>
              /\ requests_sent = <<>>
              /\ result = Raise("ValidationError")
        /\ (call.via = "tool" /\ ~OutOfBounds(call.kwargs)) => Len(requests_sent) = 1

\* C7 witness: the tool was given security_score 150, and nothing was sent
C7_Witness ==
    /\ call.func = "get_trending_tokens"
    /\ call.via = "tool"
    /\ DOMAIN call.kwargs = {"security_score"}
    /\ call.kwargs["security_score"] = 150
    /\ requests_sent = <<>>
    /\ result.exc = "ValidationError"

\* the object x has no value for key k: the key is missing, or its value is null
Absent(x, k) == Lookup(x.v, k) = <<>> \/ Lookup(x.v, k) = <<JNull>>

\* C8: a field the payload has no value for is rendered as "N/A" on its own
\* line: the fields of the first element in a get_token_metadata report, and
\* the USD price of every token block of a get_wallet_tokens report.
C8_AbsentFieldIsNA ==
    /\ (call.func = "get_token_metadata" /\ response.kind = "ok"
           /\ response.json.t = "list" /\ Len(response.json.v) > 0)
          => /\ result.kind = "return"
             /\ Absent(response.json.v[1], "name")
                   => Contains(result.text, "Token Name: N/A\n")
             /\ Absent(response.json.v[1], "logo")
                   => Contains(result.text, "Logo URL: N/A\n")
    /\ (call.func = "get_wallet_tokens" /\ call.via = "direct" /\ response.kind = "ok"
           /\ Lookup(response.json.v, "result") # <<>>
           /\ Lookup(response.json.v, "result")[1].t = "list")
          => LET held == Lookup(response.json.v, "result")[1].v
             IN  \A i \in 1..Len(held) :
                    Absent(held[i], "usd_price")
                       => /\ result.kind = "return"
                          /\ Contains(result.text, "Price (USD): N/A\n")

(***************************************************************************)
(* The properties of the session driver.                                   *)
(***************************************************************************)
\* the line is the word exit, each letter in either case
IsExit(line) ==
    /\ Len(line) = 4
    /\ SubSeq(line, 1, 1) \in {"e", "E"}
    /\ SubSeq(line, 2, 2) \in {"x", "X"}
    /\ SubSeq(line, 3, 3) \in {"i", "I"}
    /\ SubSeq(line, 4, 4) \in {"t", "T"}

\* C9: in interactive mode a line that is "exit" in any letter case ends the
\* loop with no prompt sent for it; any other line is sent to the decision
\* loop once, and nothing else is sent before the next line is read.
C9_ExitEndsChatUnsent ==
    [][/\ (pc = "chat_input" /\ reads' = reads + 1) =>
              IF IsExit(user_input')
              THEN prompts' = prompts /\ pc' = "exited" /\ exit_status' = "0"
              ELSE prompts' = Append(prompts, user_input') /\ pc' = "chat_stream"
       /\ (mode = "chat" /\ prompts' # prompts) => (pc = "chat_input" /\ reads' = reads + 1)
       /\ (mode = "chat" /\ reads' # reads) => pc = "chat_input"]_vars

\* C9 witness: one line was sent, then EXIT ended the loop unsent
C9_Witness ==
    /\ mode = "chat"
    /\ user_input = "EXIT"
    /\ pc = "exited"
    /\ prompts = <<"hello">>

\* C10: in either mode an interrupt in the loop (blocked on input, streaming
\* a turn, or asleep between iterations) prints the farewell and ends the
\* process with status 0.
C10_InterruptSaysGoodbye ==
    (event = "interrupt" /\ mode \in {"chat", "auto"})
        => /\ pc = "exited"
           /\ exit_status = "0"
           /\ Len(output) > 0
           /\ output[Len(output)] = "Goodbye Agent!"

\* C10 witness: autonomous mode was interrupted after a chunk of its first prompt
C10_Witness ==
    /\ event = "interrupt"
    /\ mode = "auto"
    /\ Len(prompts) = 1
    /\ Streamed = 1
    /\ exit_status = "0"
    /\ output[Len(output)] = "Goodbye Agent!"

\* --------------------------------------------------------------------------
\* C11: autonomous mode terminates only on an interrupt signal: in every
\* execution, including the ones where the stream of the decision loop fails,
\* a process that has left the autonomous loop left it on an interrupt; every
\* prompt sent is the one fixed prompt, and the suspension after the end of a
\* stream lasts the interval of 10 seconds.
C11_AutoEndsOnlyOnInterrupt ==
    mode = "auto" =>
        /\ pc = "exited" => event = "interrupt"
        /\ \A i \in 1..Len(prompts) : prompts[i] = thought
        /\ pc = "auto_sleep" => sleep_for = 10

\* --------------------------------------------------------------------------
\* The lines of ModeInputs by the mode the specification gives them: trimmed
\* and lower-cased, "1" or "chat" select chat, "2" or "auto" select auto, and
\* every other line selects nothing.
ChatLines == {"1", "chat", " Chat "}

AutoLines == {"2", "AUTO"}

OtherLines == {"3", "12", ""}

\* C12: mode selection returns "chat" exactly for the lines that are "1" or
\* "chat" after trimming and lower-casing and "auto" exactly for the lines that
\* are "2" or "auto"; every other line is answered by a new prompt, with the
\* process still running; the mode is selected once per process, and from then
\* on only the selected run loop is active, never the other.
C12_ModeSelectedOnce ==
    [][ /\ (pc = "choose_mode" /\ event' = "line") =>
              /\ user_input' \in ChatLines \cup AutoLines \cup OtherLines
              /\ user_input' \in ChatLines =>
                    mode' = "chat" /\ pc' = "chat_input" /\ prompts' = prompts
              /\ user_input' \in AutoLines =>
                    mode' = "auto" /\ pc' = "auto_stream"
              /\ user_input' \in OtherLines =>
                    /\ mode' = "none" /\ pc' = "choose_mode"
                    /\ exit_status' = "running"
                    /\ output' = output \o <<"Invalid choice. Please try again.">> \o Menu
        /\ mode # "none" => mode' = mode
        /\ mode' # "none" => pc # "start"
        /\ mode' = "none" => pc' \in {"start", "choose_mode", "exited"}
        /\ mode' = "chat" => pc' \in {"chat_input", "chat_stream", "exited"}
        /\ mode' = "auto" => pc' \in {"auto_stream", "auto_sleep", "exited"}
      ]_vars

\* autonomous mode selected by "AUTO" after one line that was refused
C12_Witness ==
    /\ mode = "auto" /\ user_input = "AUTO" /\ reads = 2
    /\ pc = "auto_stream"
    /\ \E i \in 1..Len(output) : output[i] = "Invalid choice. Please try again."

\* --------------------------------------------------------------------------
\* the base URIs of BaseUris in which the placeholder {id} occurs
WithPlaceholder == {"https://example.com/metadata/{id}.json", "{id}"}

\* C13: deploy_multi_token called with a base_uri that does not contain the
\* placeholder {id} raises ValueError to its caller, returns no text, and
\* deploys no contract; a call with the placeholder starts the deployment of
\* that base_uri, and a deployment is started only by such a call.
C13_DeployOnlyWithPlaceholder ==
    /\ (call.func = "deploy_multi_token" /\ "base_uri" \in DOMAIN call.kwargs) =>
          /\ call.kwargs.base_uri \notin WithPlaceholder =>
                result = Raise("ValueError") /\ deployments = <<>>
          /\ call.kwargs.base_uri \in WithPlaceholder =>
                deployments = <<call.kwargs.base_uri>>
    /\ deployments # <<>> =>
          /\ call.func = "deploy_multi_token"
          /\ "base_uri" \in DOMAIN call.kwargs
          /\ call.kwargs.base_uri \in WithPlaceholder

\* a call through the tool with {ID} in upper case: refused, nothing deployed
C13_Witness ==
    /\ call.func = "deploy_multi_token" /\ call.via = "tool"
    /\ "base_uri" \in DOMAIN call.kwargs
    /\ call.kwargs.base_uri = "ipfs://meta/{ID}.json"
    /\ result = Raise("ValueError")
    /\ deployments = <<>>

====
